---- MODULE Spec2Model ----
(***************************************************************************)
(* Model of the OrbitMeetAI frontend (src/frontend/src/App.jsx and the     *)
(* components it renders).                                                 *)
(*                                                                         *)
(* Part 1: the dual-pane layout state of App (chat pane width, visibility, *)
(* collapse flags, the separator's drag session) and the two localStorage  *)
(* entries it reads at mount and writes from its persistence effects.      *)
(* Two builds of App exist in the sources: App.jsx (clamp 5..95, default   *)
(* 20, collapse buttons, visibility toggle) and an older one               *)
(* (src/unnamed/part_000: clamp 25..60, default 33.33, neither collapse    *)
(* nor visibility).  The variable `variant` says which build runs.         *)
(*                                                                         *)
(* Part 2: one instance of the SearchableSelect combobox                   *)
(* (src/frontend/src/components/SearchableSelect.jsx): its three states,   *)
(* the props its parent passes, and its event handlers.                    *)
(*                                                                         *)
(* Part 3: the project data App loads in handleSelect (App.jsx and         *)
(* services/api.js).                                                       *)
(* Part 4: one Chatbot (components/Chatbot.jsx), mounted by App while the  *)
(* chat pane is visible.                                                   *)
(* Part 5: the ConnectionStatus poll (components/ConnectionStatus.jsx).    *)
(*                                                                         *)
(* The parts share no state.  Each has its own specification (Spec,        *)
(* ComboSpec, FetchSpec, ChatSpec and ChatFairSpec, ConnSpec), which runs  *)
(* that part and leaves the others as constructed.                         *)
(***************************************************************************)
EXTENDS Integers, Sequences, FiniteSets, TLC

VARIABLES
    variant,              \* "app" (App.jsx) or "older" (part_000)
    mounted,              \* the App component is mounted
    store,                \* localStorage: key -> entry
    chatbotWidth,         \* useState chatbotWidth, a JS Number
    isDesktop,            \* useState isDesktop
    isChatbotVisible,     \* useState isChatbotVisible
    isAnalysisCollapsed,  \* useState isAnalysisCollapsed
    isChatbotCollapsed,   \* useState isChatbotCollapsed
    isResizing,           \* useState isResizing
    listeners,            \* document mousemove/mouseup listeners attached
    last,                 \* history: the last operation and its inputs
    prevOp,               \* history: the operation before the last one
    readAtMount,          \* history: what the mount that is the last
                          \* operation read from localStorage
    options,              \* SearchableSelect prop options
    value,                \* SearchableSelect prop value (the parent's state)
    disabled,             \* SearchableSelect prop disabled
    accessors,            \* getOptionLabel and getOptionValue are both given
    isOpen,               \* useState isOpen
    searchTerm,           \* useState searchTerm, a string
    highlightedIndex,     \* useState highlightedIndex (0-based, -1 for none)
    cbLast,               \* history: the last combobox event, its inputs and
                          \* the onChange call it made
    selectedProject,      \* App useState selectedProject
    selectedMeeting,      \* App useState selectedMeeting
    projectKey,           \* App useState projectKey
    projectData,          \* App useState projectData
    loading,              \* App useState loading
    error,                \* App useState error
    requests,             \* getProjectData calls not yet settled
    reqCount,             \* history: number of getProjectData calls so far
    latest,               \* history: the request of the most recent
                          \* handleSelect and the data it returned
    fetchLast,            \* history: the last step of Part 3
    chatMounted,          \* a Chatbot is mounted
    chatInstance,         \* history: how many Chatbots were mounted so far
    projectName,          \* Chatbot prop projectName
    meetingName,          \* Chatbot prop meetingName
    messages,             \* Chatbot useState messages
    input,                \* Chatbot useState input, a string
    chatLoading,          \* Chatbot useState loading
    chatRequests,         \* chatWithOrbit calls not yet settled
    chatSent,             \* history: number of chatWithOrbit calls so far
    chatSince,            \* history: chatSent when the project or meeting
                          \* shown last changed
    chatLast,             \* history: the last step of Part 4
    connMounted,          \* the ConnectionStatus is mounted
    status,               \* ConnectionStatus useState status
    message,              \* ConnectionStatus useState message
    checks,               \* api.get('/health') calls not yet settled
    checkCount,           \* history: number of health checks started so far
    shownCheck,           \* history: the check whose result status shows
    newestSettled,        \* history: the latest-started check that settled
    connLast              \* history: the last step of Part 5

layoutVars == <<variant, mounted, store, chatbotWidth, isDesktop,
                isChatbotVisible, isAnalysisCollapsed, isChatbotCollapsed,
                isResizing, listeners, last, prevOp, readAtMount>>

comboVars == <<options, value, disabled, accessors, isOpen, searchTerm,
               highlightedIndex, cbLast>>

fetchVars == <<selectedProject, selectedMeeting, projectKey, projectData,
               loading, error, requests, reqCount, latest, fetchLast>>

chatVars == <<chatMounted, chatInstance, projectName, meetingName, messages,
              input, chatLoading, chatRequests, chatSent, chatSince,
              chatLast>>

connVars == <<connMounted, status, message, checks, checkCount, shownCheck,
              newestSettled, connLast>>

vars == <<layoutVars, comboVars, fetchVars, chatVars, connVars>>

\* what each part leaves alone
exceptLayout == <<comboVars, fetchVars, chatVars, connVars>>

exceptCombo == <<layoutVars, fetchVars, chatVars, connVars>>

exceptFetch == <<layoutVars, comboVars, chatVars, connVars>>

exceptChat == <<layoutVars, comboVars, fetchVars, connVars>>

exceptConn == <<layoutVars, comboVars, fetchVars, chatVars>>

(***************************************************************************)
(* JS Number values.  A finite Number is an exact fraction n/d in lowest   *)
(* terms with d > 0; NaN and the two infinities are values of their own.   *)
(* The inputs below are drawn so that every finite value that is converted *)
(* to a string has a terminating decimal expansion, as every double has.   *)
(***************************************************************************)
Abs(x) == IF x < 0 THEN -x ELSE x

Sign(x) == IF x < 0 THEN -1 ELSE IF x > 0 THEN 1 ELSE 0

RECURSIVE Gcd(_, _)
Gcd(a, b) == IF b = 0 THEN a ELSE Gcd(b, a % b)

NaN == [t |-> "nan", n |-> 0, d |-> 1]

Inf(sgn) == [t |-> "inf", n |-> sgn, d |-> 1]

Fin(n, d) ==
    LET g == Gcd(Abs(n), Abs(d))
        s == IF d < 0 THEN -1 ELSE 1
    IN  [t |-> "fin", n |-> (s * n) \div g, d |-> (s * d) \div g]

Num(k) == Fin(k, 1)

IsNaN(a) == a.t = "nan"

IsFinite(a) == a.t = "fin"

\* a < b for two Numbers; false when either is NaN
Lt(a, b) ==
    IF IsNaN(a) \/ IsNaN(b) THEN FALSE
    ELSE IF a.t = "inf" /\ b.t = "inf" THEN a.n < b.n
    ELSE IF a.t = "inf" THEN a.n < 0
    ELSE IF b.t = "inf" THEN b.n > 0
    ELSE a.n * b.d < b.n * a.d

\* a - b
JSSub(a, b) ==
    IF IsNaN(a) \/ IsNaN(b) THEN NaN
    ELSE IF a.t = "inf" /\ b.t = "inf" THEN (IF a.n = b.n THEN NaN ELSE a)
    ELSE IF a.t = "inf" THEN a
    ELSE IF b.t = "inf" THEN Inf(-b.n)
    ELSE Fin(a.n * b.d - b.n * a.d, a.d * b.d)

\* a / b
JSDiv(a, b) ==
    IF IsNaN(a) \/ IsNaN(b) THEN NaN
    ELSE IF a.t = "inf" /\ b.t = "inf" THEN NaN
    ELSE IF a.t = "inf" THEN Inf(IF b.n < 0 THEN -a.n ELSE a.n)
    ELSE IF b.t = "inf" THEN Num(0)
    ELSE IF b.n = 0 THEN (IF a.n = 0 THEN NaN ELSE Inf(Sign(a.n)))
    ELSE Fin(a.n * b.d, a.d * b.n)

\* a * b
JSMul(a, b) ==
    IF IsNaN(a) \/ IsNaN(b) THEN NaN
    ELSE IF a.t = "inf" \/ b.t = "inf"
         THEN (IF a.n = 0 \/ b.n = 0 THEN NaN ELSE Inf(Sign(a.n) * Sign(b.n)))
    ELSE Fin(a.n * b.n, a.d * b.d)

\* Math.min(a, b): NaN when either argument is NaN
MathMin(a, b) ==
    IF IsNaN(a) \/ IsNaN(b) THEN NaN ELSE IF Lt(b, a) THEN b ELSE a

\* Math.max(a, b): NaN when either argument is NaN
MathMax(a, b) ==
    IF IsNaN(a) \/ IsNaN(b) THEN NaN ELSE IF Lt(a, b) THEN b ELSE a

(***************************************************************************)
(* Strings are sequences of one-character strings, so that the conversions *)
(* between Numbers and strings can be computed character by character.     *)
(***************************************************************************)
MaxFracDigits == 6

Digits == <<"0", "1", "2", "3", "4", "5", "6", "7", "8", "9">>

DigitChar(k) == Digits[k + 1]

IsDigit(c) == \E k \in 1..10 : Digits[k] = c

DigitVal(c) == (CHOOSE k \in 1..10 : Digits[k] = c) - 1

S_NaN == <<"N", "a", "N">>

S_Infinity == <<"I", "n", "f", "i", "n", "i", "t", "y">>

S_true == <<"t", "r", "u", "e">>

S_false == <<"f", "a", "l", "s", "e">>

RECURSIVE NatToStr(_)
NatToStr(k) ==
    IF k < 10 THEN <<DigitChar(k)>>
    ELSE NatToStr(k \div 10) \o <<DigitChar(k % 10)>>

\* the decimal digits of r/d (0 <= r < d), at most k of them
RECURSIVE FracToStr(_, _, _)
FracToStr(r, d, k) ==
    IF r = 0 \/ k = 0 THEN <<>>
    ELSE <<DigitChar((r * 10) \div d)>> \o FracToStr((r * 10) % d, d, k - 1)

\* a toString that drops the fraction digits
NumberToString_Truncating(a) ==
    IF IsNaN(a) THEN S_NaN
    ELSE IF a.t = "inf" THEN (IF a.n < 0 THEN <<"-">> ELSE <<>>) \o S_Infinity
    ELSE (IF a.n < 0 THEN <<"-">> ELSE <<>>) \o NatToStr(Abs(a.n) \div a.d)

\* Number.prototype.toString() (radix 10, magnitudes in decimal notation)
NumberToString(a) ==
    IF IsNaN(a) THEN S_NaN
    ELSE IF a.t = "inf" THEN (IF a.n < 0 THEN <<"-">> ELSE <<>>) \o S_Infinity
    ELSE LET m  == Abs(a.n)
             ip == NatToStr(m \div a.d)
             fp == FracToStr(m % a.d, a.d, MaxFracDigits)
         IN  (IF a.n < 0 THEN <<"-">> ELSE <<>>)
             \o ip
             \o (IF fp = <<>> THEN <<>> ELSE <<".">> \o fp)

\* Boolean.prototype.toString()
BooleanToString(b) == IF b THEN S_true ELSE S_false

StartsWith(s, p) == Len(s) >= Len(p) /\ SubSeq(s, 1, Len(p)) = p

RECURSIVE TrimLeft(_)
TrimLeft(s) ==
    IF s # <<>> /\ Head(s) = " " THEN TrimLeft(Tail(s)) ELSE s

\* the longest prefix of s made of decimal digits
RECURSIVE DigitsPrefix(_)
DigitsPrefix(s) ==
    IF s # <<>> /\ IsDigit(Head(s))
    THEN <<Head(s)>> \o DigitsPrefix(Tail(s))
    ELSE <<>>

RECURSIVE DigitsValue(_)
DigitsValue(s) ==
    IF s = <<>> THEN 0
    ELSE DigitsValue(SubSeq(s, 1, Len(s) - 1)) * 10 + DigitVal(s[Len(s)])

RECURSIVE Pow10(_)
Pow10(k) == IF k = 0 THEN 1 ELSE 10 * Pow10(k - 1)

\* parseFloat(string): leading white space skipped, an optional sign, then
\* "Infinity" or the longest decimal literal; NaN when there is none.
\* (Exponent parts are not modelled: no stored string below has one.)
ParseFloat(str) ==
    LET s      == TrimLeft(str)
        signed == s # <<>> /\ Head(s) \in {"+", "-"}
        sgn    == IF s # <<>> /\ Head(s) = "-" THEN -1 ELSE 1
        body   == IF signed THEN Tail(s) ELSE s
    IN  IF StartsWith(body, S_Infinity) THEN Inf(sgn)
        ELSE LET ip   == DigitsPrefix(body)
                 rest == SubSeq(body, Len(ip) + 1, Len(body))
                 fp   == IF rest # <<>> /\ Head(rest) = "."
                         THEN DigitsPrefix(Tail(rest)) ELSE <<>>
             IN  IF ip = <<>> /\ fp = <<>> THEN NaN
                 ELSE Fin(sgn * (DigitsValue(ip) * Pow10(Len(fp)) + DigitsValue(fp)),
                          Pow10(Len(fp)))

(***************************************************************************)
(* localStorage.  An entry is absent (getItem returns null) or a string.   *)
(***************************************************************************)
Null == [has |-> FALSE, str |-> <<>>]

Str(s) == [has |-> TRUE, str |-> s]

\* JS truthiness of what getItem returned: null and "" are falsy
Truthy(e) == e.has /\ e.str # <<>>

\* what localStorage may hold under "chatbotWidth" when App mounts
StoredWidths ==
    { Null, Str(<<>>),
      Str(<<"2", "0">>), Str(<<"3", "3", ".", "3", "3">>),
      Str(<<"0">>), Str(<<"2", "0", "0">>),
      Str(<<" ", "5", "0">>), Str(<<"1", "2", "p", "x">>),
      Str(<<"a", "b", "c">>), Str(S_Infinity) }

\* what localStorage may hold under "chatbotVisible" when App mounts
StoredVisibles ==
    { Null, Str(<<>>), Str(S_true), Str(S_false), Str(<<"a", "b", "c">>) }

(***************************************************************************)
(* Constants of the two builds.                                            *)
(***************************************************************************)
Variants == {"app", "older"}

Breakpoint == 1024

MinPercentApp == 5

MaxPercentApp == 95

DefaultPercentApp == 20

CollapseAnalysisWidth == 95

CollapseChatbotWidth == 5

ExpandBothWidth == 20

MinPercentOlder == 25

MaxPercentOlder == 60

DefaultWidthOlder == Fin(3333, 100)

MinPercent(v) == IF v = "app" THEN MinPercentApp ELSE MinPercentOlder

MaxPercent(v) == IF v = "app" THEN MaxPercentApp ELSE MaxPercentOlder

DefaultWidth(v) == IF v = "app" THEN Num(DefaultPercentApp) ELSE DefaultWidthOlder

(***************************************************************************)
(* Construction: the lazy useState initialisers, then the first commit's   *)
(* effects.                                                                *)
(***************************************************************************)
\* const saved = localStorage.getItem('chatbotWidth');
\* return saved ? parseFloat(saved) : 20;
InitialChatbotWidth(v, st) ==
    IF Truthy(st.chatbotWidth) THEN ParseFloat(st.chatbotWidth.str)
    ELSE DefaultWidth(v)

\* const saved = localStorage.getItem('chatbotVisible');
\* return saved ? saved === 'true' : true;
\* (the older build has no such state: its chat pane is always rendered)
InitialChatbotVisible(v, st) ==
    IF v = "app"
    THEN (IF Truthy(st.chatbotVisible) THEN st.chatbotVisible.str = S_true ELSE TRUE)
    ELSE TRUE

\* a breakpoint test that leaves 1024 itself on the narrow side
IsDesktopFor_Strict(innerWidth) == innerWidth > Breakpoint

\* useState(window.innerWidth >= 1024)
IsDesktopFor(innerWidth) == innerWidth >= Breakpoint

\* localStorage.setItem('chatbotWidth', chatbotWidth.toString())
SaveWidth(st, w) == [st EXCEPT !.chatbotWidth = Str(NumberToString(w))]

\* localStorage.setItem('chatbotVisible', isChatbotVisible.toString())
SaveVisible(v, st, vis) ==
    IF v = "app" THEN [st EXCEPT !.chatbotVisible = Str(BooleanToString(vis))]
    ELSE st

\* a width effect with an empty dependency list: it runs at mount only
PersistWidthEffect_MountOnly(st, first, wOld, wNew) ==
    IF first THEN SaveWidth(st, wNew) ELSE st

\* useEffect(..., [chatbotWidth]): runs after a commit in which the
\* dependency changed (Object.is), and after the first commit
PersistWidthEffect(st, first, wOld, wNew) ==
    IF first \/ wNew # wOld THEN SaveWidth(st, wNew) ELSE st

\* useEffect(..., [isChatbotVisible])
PersistVisibleEffect(v, st, first, visOld, visNew) ==
    IF first \/ visNew # visOld THEN SaveVisible(v, st, visNew) ELSE st

\* both persistence effects of one commit
PersistEffects(v, st, first, wOld, wNew, visOld, visNew) ==
    PersistVisibleEffect(v, PersistWidthEffect(st, first, wOld, wNew),
                         first, visOld, visNew)

\* an effect whose cleanup removes nothing
ResizeListenerEffect_NoCleanup(attached, first, rOld, rNew) ==
    attached \/ rNew

\* useEffect(..., [isResizing]): the cleanup removes the document listeners
\* (and the cursor / user-select override), then they are attached again iff
\* isResizing.  The result says whether they are attached after the commit.
ResizeListenerEffect(attached, first, rOld, rNew) ==
    IF first \/ rNew # rOld THEN rNew ELSE attached

NoRect == [left |-> Num(0), width |-> Num(0)]

Op(name) == [op |-> name, x |-> Num(0), rect |-> NoRect, ran |-> FALSE]

\* the window widths the viewport takes
Viewports == {1023, 1024}

\* The state of a newly mounted App over localStorage content st0.
Constructed(v, st0, innerWidth) ==
    LET w   == InitialChatbotWidth(v, st0)
        vis == InitialChatbotVisible(v, st0)
    IN  [ store               |-> PersistEffects(v, st0, TRUE, w, w, vis, vis),
          chatbotWidth        |-> w,
          isDesktop           |-> IsDesktopFor(innerWidth),
          isChatbotVisible    |-> vis,
          isAnalysisCollapsed |-> FALSE,
          isChatbotCollapsed  |-> FALSE,
          isResizing          |-> FALSE,
          listeners           |-> ResizeListenerEffect(FALSE, TRUE, FALSE, FALSE) ]

\* a combobox event with no input and no onChange call
CbOp(name) ==
    [op |-> name, key |-> "", text |-> <<>>, index |-> -1, calls |-> 0,
     arg |-> "", wasOpen |-> FALSE, hadTerm |-> <<>>, hadIndex |-> -1]

\* The state of a newly mounted SearchableSelect under the given props:
\* useState(false), useState(''), useState(-1)
SelectConstructed(opts, val, dis, acc) ==
    /\ options = opts
    /\ value = val
    /\ disabled = dis
    /\ accessors = acc
    /\ isOpen = FALSE
    /\ searchTerm = <<>>
    /\ highlightedIndex = -1
    /\ cbLast = CbOp("mount")

\* the combobox of the layout's runs: constructed over no options and left
\* alone
SelectIdle == SelectConstructed(<<>>, "", FALSE, TRUE)

\* JS null, or a value that is there
NoData == [has |-> FALSE, key |-> ""]

NoError == [has |-> FALSE, msg |-> ""]

\* history: the most recent handleSelect started no request
NoRequest == [id |-> 0, settled |-> TRUE, data |-> NoData]

FetchOp(name) ==
    [op |-> name, id |-> 0, project |-> "", meeting |-> "", key |-> "",
     storedKey |-> "", started |-> FALSE, hadError |-> NoError,
     inFlight |-> 0]

\* App as constructed: useState(''), useState(''), useState(null),
\* useState(false), useState(null), useState('')
FetchIdle ==
    /\ selectedProject = ""
    /\ selectedMeeting = ""
    /\ projectKey = ""
    /\ projectData = NoData
    /\ loading = FALSE
    /\ error = NoError
    /\ requests = {}
    /\ reqCount = 0
    /\ latest = NoRequest
    /\ fetchLast = FetchOp("mount")

\* a chat message: its role, what its content is (the welcome message of
\* a project and meeting, the prompt to select one, a question, an answer,
\* one of the error texts), the question and the names in the content, and
\* as history the request it belongs to
Msg(role, kind, req, text, p, m) ==
    [role |-> role, kind |-> kind, req |-> req, text |-> text,
     project |-> p, meeting |-> m]

\* the welcome-message effect: setMessages([{ role: 'assistant', ... }])
WelcomeMessages(p, m) ==
    IF p # "" /\ m # ""
    THEN <<Msg("assistant", "welcome", 0, <<>>, p, m)>>
    ELSE <<Msg("assistant", "prompt", 0, <<>>, "", "")>>

ChatOp(name) ==
    [op |-> name, text |-> <<>>, accepted |-> FALSE, wasLoading |-> FALSE,
     inFlight |-> 0, req |-> 0, orphan |-> FALSE]

\* a newly mounted Chatbot under the given props, after its mount effects:
\* useState([]) then the welcome message, useState(''), useState(false)
ChatConstructed(p, m) ==
    /\ chatMounted = TRUE
    /\ projectName = p
    /\ meetingName = m
    /\ messages = WelcomeMessages(p, m)
    /\ input = <<>>
    /\ chatLoading = FALSE

ChatIdle ==
    /\ ChatConstructed("", "")
    /\ chatInstance = 1
    /\ chatRequests = {}
    /\ chatSent = 0
    /\ chatSince = 0
    /\ chatLast = ChatOp("mount")

ConnOp(name) == [op |-> name, id |-> 0, result |-> ""]

\* a newly mounted ConnectionStatus after its mount effect:
\* useState('checking'), useState(''), and checkConnection() called once
ConnIdle ==
    /\ connMounted = TRUE
    /\ status = "checking"
    /\ message = ""
    /\ checks = {1}
    /\ checkCount = 1
    /\ shownCheck = 0
    /\ newestSettled = 0
    /\ connLast = ConnOp("mount")

Init ==
    \E v \in Variants, cw \in StoredWidths, cv \in StoredVisibles,
       iw \in Viewports :
        LET st0 == [chatbotWidth |-> cw, chatbotVisible |-> cv]
            c   == Constructed(v, st0, iw)
        IN  /\ variant = v
            /\ mounted = TRUE
            /\ store = c.store
            /\ chatbotWidth = c.chatbotWidth
            /\ isDesktop = c.isDesktop
            /\ isChatbotVisible = c.isChatbotVisible
            /\ isAnalysisCollapsed = c.isAnalysisCollapsed
            /\ isChatbotCollapsed = c.isChatbotCollapsed
            /\ isResizing = c.isResizing
            /\ listeners = c.listeners
            /\ last = Op("mount")
            /\ prevOp = "other"
            /\ readAtMount = st0
            /\ SelectIdle
            /\ FetchIdle
            /\ ChatIdle
            /\ ConnIdle

NoRead == [chatbotWidth |-> Null, chatbotVisible |-> Null]

\* one commit: the new values of the states a handler set, then the effects
Commit(w, vis, a, c, r) ==
    /\ chatbotWidth' = w
    /\ isChatbotVisible' = vis
    /\ isAnalysisCollapsed' = a
    /\ isChatbotCollapsed' = c
    /\ isResizing' = r
    /\ store' = PersistEffects(variant, store, FALSE, chatbotWidth, w,
                               isChatbotVisible, vis)
    /\ listeners' = ResizeListenerEffect(listeners, FALSE, isResizing, r)
    /\ readAtMount' = NoRead
    /\ UNCHANGED <<variant, mounted, isDesktop>>

\* prevOp tells the two collapse operations from every other one
PrevOf(name) ==
    IF name \in {"collapseAnalysis", "collapseChatbot"} THEN name ELSE "other"

Record(o) ==
    /\ last' = o
    /\ prevOp' = PrevOf(last.op)

(***************************************************************************)
(* Handlers of App.  The named handlers are the component's operations and *)
(* may run in every mounted state (the buttons that call them are rendered *)
(* under the conditions of App.jsx lines 334-366, none of which mentions   *)
(* isResizing); the separator's inline handler exists only while the       *)
(* separator is rendered.                                                  *)
(***************************************************************************)
\* a toggle that also clears the collapse flags
ToggleChatbotVisible_Expands ==
    /\ mounted /\ variant = "app"
    /\ Commit(chatbotWidth, ~isChatbotVisible, FALSE, FALSE, isResizing)
    /\ Record(Op("toggleVisible"))

\* onClick={() => setIsChatbotVisible(!isChatbotVisible)}
ToggleChatbotVisible ==
    /\ mounted /\ variant = "app"
    /\ Commit(chatbotWidth, ~isChatbotVisible, isAnalysisCollapsed,
              isChatbotCollapsed, isResizing)
    /\ Record(Op("toggleVisible"))

\* setIsAnalysisCollapsed(true); setIsChatbotCollapsed(false);
CollapseAnalysisFlags == [analysis |-> TRUE, chatbot |-> FALSE]

HandleCollapseAnalysis ==
    /\ mounted /\ variant = "app"
    /\ Commit(Num(CollapseAnalysisWidth), isChatbotVisible,
              CollapseAnalysisFlags.analysis, CollapseAnalysisFlags.chatbot,
              isResizing)
    /\ Record(Op("collapseAnalysis"))

\* a collapse of the chat pane that leaves the analysis flag as it is
CollapseChatbotFlags_KeepsAnalysis ==
    [analysis |-> isAnalysisCollapsed, chatbot |-> TRUE]

\* setIsChatbotCollapsed(true); setIsAnalysisCollapsed(false);
CollapseChatbotFlags == [analysis |-> FALSE, chatbot |-> TRUE]

HandleCollapseChatbot ==
    /\ mounted /\ variant = "app"
    /\ Commit(Num(CollapseChatbotWidth), isChatbotVisible,
              CollapseChatbotFlags.analysis, CollapseChatbotFlags.chatbot,
              isResizing)
    /\ Record(Op("collapseChatbot"))

\* an expand that clears the chat flag only
ExpandBothFlags_KeepsAnalysis ==
    [analysis |-> isAnalysisCollapsed, chatbot |-> FALSE]

\* setIsAnalysisCollapsed(false); setIsChatbotCollapsed(false);
ExpandBothFlags == [analysis |-> FALSE, chatbot |-> FALSE]

HandleExpandBoth ==
    /\ mounted /\ variant = "app"
    /\ Commit(Num(ExpandBothWidth), isChatbotVisible,
              ExpandBothFlags.analysis, ExpandBothFlags.chatbot, isResizing)
    /\ Record(Op("expandBoth"))

\* The separator is in the DOM iff
\*   isChatbotVisible && !isAnalysisCollapsed && !isChatbotCollapsed
\* (App.jsx; always, in the older build), and is displayed ("hidden lg:block")
\* iff the viewport is at least 1024 wide, which is what isDesktop tracks.
SeparatorRendered ==
    /\ isDesktop
    /\ variant = "app" =>
          isChatbotVisible /\ ~isAnalysisCollapsed /\ ~isChatbotCollapsed

\* the pointer positions (clientX) of mousemove events
PointerXs == {0, 50, 424, 500, 1100}

\* what getBoundingClientRect() of the container returns
Rects ==
    { [left |-> Num(0), width |-> Num(1000)],
      [left |-> Num(24), width |-> Num(800)],
      [left |-> Num(0), width |-> Num(0)] }

\* onMouseDown={(e) => { e.preventDefault(); setIsResizing(true); }}
\* rect is the rectangle the container has when the event arrives; the
\* handler does not read it, the history records it.
SeparatorMouseDown(rect) ==
    /\ mounted
    /\ SeparatorRendered
    /\ Commit(chatbotWidth, isChatbotVisible, isAnalysisCollapsed,
              isChatbotCollapsed, TRUE)
    /\ Record([Op("mouseDown") EXCEPT !.rect = rect])

\* a width computed from clientX as if the container began at x = 0
NewWidth_IgnoresLeft(clientX, rect) ==
    JSMul(JSDiv(JSSub(rect.width, clientX), rect.width), Num(100))

\* const newWidth = ((containerRect.width - (e.clientX - containerRect.left))
\*                   / containerRect.width) * 100;
NewWidth(clientX, rect) ==
    JSMul(JSDiv(JSSub(rect.width, JSSub(clientX, rect.left)), rect.width),
          Num(100))

\* const constrainedWidth = Math.max(5, Math.min(95, newWidth));
ConstrainedWidth(v, newWidth) ==
    MathMax(Num(MinPercent(v)), MathMin(Num(MaxPercent(v)), newWidth))

\* a handler that is attached at every commit and returns early on nothing
MouseMoveRuns_Always == mounted

\* if (!isResizing || !resizeRef.current) return;
\* if (!container) return;
\* resizeRef is set on the row of panes, which every render of App has, and
\* that row has a parent; the handler is called only while it is attached,
\* and the isResizing of its closure is the one of the commit that attached it.
MouseMoveRuns == listeners /\ isResizing /\ mounted

\* a mousemove event on the document
MouseMove(x, rect) ==
    /\ mounted
    /\ IF MouseMoveRuns
       THEN Commit(ConstrainedWidth(variant, NewWidth(x, rect)),
                   isChatbotVisible, isAnalysisCollapsed, isChatbotCollapsed,
                   isResizing)
       ELSE /\ readAtMount' = NoRead
            /\ UNCHANGED <<variant, mounted, store, chatbotWidth, isDesktop,
                           isChatbotVisible, isAnalysisCollapsed,
                           isChatbotCollapsed, isResizing, listeners>>
    /\ Record([op |-> "mouseMove", x |-> x, rect |-> rect, ran |-> MouseMoveRuns])

\* a release that leaves the session flag as it is
HandleMouseUpResizing_Keeps == isResizing

\* const handleMouseUp = () => { setIsResizing(false); };
HandleMouseUpResizing == FALSE

\* a mouseup event on the document: handleMouseUp, when attached
MouseUp ==
    /\ mounted
    /\ IF listeners
       THEN Commit(chatbotWidth, isChatbotVisible, isAnalysisCollapsed,
                   isChatbotCollapsed, HandleMouseUpResizing)
       ELSE /\ readAtMount' = NoRead
            /\ UNCHANGED <<variant, mounted, store, chatbotWidth, isDesktop,
                           isChatbotVisible, isAnalysisCollapsed,
                           isChatbotCollapsed, isResizing, listeners>>
    /\ Record([Op("mouseUp") EXCEPT !.ran = listeners])

\* a resize event on the window: setIsDesktop(window.innerWidth >= 1024)
HandleResize(innerWidth) ==
    /\ mounted
    /\ isDesktop' = IsDesktopFor(innerWidth)
    /\ readAtMount' = NoRead
    /\ UNCHANGED <<variant, mounted, store, chatbotWidth, isChatbotVisible,
                   isAnalysisCollapsed, isChatbotCollapsed, isResizing,
                   listeners>>
    /\ Record([Op("viewport") EXCEPT !.x = Num(innerWidth)])

\* App unmounts: the effects' cleanups run; the state is gone with the
\* component (the variables keep the values it last had)
Unmount ==
    /\ mounted
    /\ mounted' = FALSE
    /\ listeners' = FALSE
    /\ readAtMount' = NoRead
    /\ UNCHANGED <<variant, store, chatbotWidth, isDesktop, isChatbotVisible,
                   isAnalysisCollapsed, isChatbotCollapsed, isResizing>>
    /\ Record(Op("unmount"))

\* App mounts again (a reload) over what localStorage holds now
Mount(innerWidth) ==
    /\ ~mounted
    /\ LET c == Constructed(variant, store, innerWidth)
       IN  /\ mounted' = TRUE
           /\ store' = c.store
           /\ chatbotWidth' = c.chatbotWidth
           /\ isDesktop' = c.isDesktop
           /\ isChatbotVisible' = c.isChatbotVisible
           /\ isAnalysisCollapsed' = c.isAnalysisCollapsed
           /\ isChatbotCollapsed' = c.isChatbotCollapsed
           /\ isResizing' = c.isResizing
           /\ listeners' = c.listeners
    /\ readAtMount' = store
    /\ UNCHANGED variant
    /\ Record(Op("mount"))

Next ==
    \/ ToggleChatbotVisible /\ UNCHANGED exceptLayout
    \/ HandleCollapseAnalysis /\ UNCHANGED exceptLayout
    \/ HandleCollapseChatbot /\ UNCHANGED exceptLayout
    \/ HandleExpandBoth /\ UNCHANGED exceptLayout
    \/ \E rect \in Rects : SeparatorMouseDown(rect) /\ UNCHANGED exceptLayout
    \/ \E x \in PointerXs, rect \in Rects :
          MouseMove(Num(x), rect) /\ UNCHANGED exceptLayout
    \/ MouseUp /\ UNCHANGED exceptLayout
    \/ \E w \in Viewports : HandleResize(w) /\ UNCHANGED exceptLayout
    \/ Unmount /\ UNCHANGED exceptLayout
    \/ \E w \in Viewports : Mount(w) /\ UNCHANGED exceptLayout

Spec == Init /\ [][Next]_vars

(***************************************************************************)
(* Properties of the layout state (claims C1 to C10).                      *)
(***************************************************************************)
\* w is a finite Number within [MinPercent(v), MaxPercent(v)]
InRange(v, w) ==
    /\ IsFinite(w)
    /\ MinPercent(v) * w.d <= w.n
    /\ w.n <= MaxPercent(v) * w.d

\* C1: in every reachable state of the layout of App.jsx, whatever
\* localStorage held at mount and whatever operations ran, chatbotWidth is
\* within [5, 95].  (Refuted: a stored "200" or "abc" is taken as it parses,
\* and a mousemove over a zero-width container yields NaN.)
C1_WidthAlwaysInRange ==
    (mounted /\ variant = "app") => InRange("app", chatbotWidth)

\* C2: while a drag session is open, a mousemove that starts from an in-range
\* width leaves an in-range width, for every clientX and every container
\* rectangle.  (Refuted: width 0 and clientX = left give 0/0 = NaN.)
C2_MouseMoveKeepsInRange ==
    [][ ( /\ MouseMoveRuns
          /\ InRange(variant, chatbotWidth)
          /\ last'.op = "mouseMove" )
        => InRange(variant, chatbotWidth') ]_vars

\* 100 * (W - (X - L)) / W clamped to [lo, hi], stated on integers: w is the
\* Number it must be, for integer pixel values and W > 0
IsClampedPercent(w, X, L, W, lo, hi) ==
    LET r == 100 * (W - (X - L))
    IN  IF r < lo * W THEN w = Num(lo)
        ELSE IF r > hi * W THEN w = Num(hi)
        ELSE IsFinite(w) /\ w.n * W = r * w.d

\* C3: after a mousemove handled in an open session over a container of
\* positive width W at offset left, chatbotWidth is
\* clamp(((W - (clientX - left)) / W) * 100, minPercent, maxPercent); for
\* W = 1000, left = 0, clientX = 50 that is 95 clamped to maxPercent.
C3_MouseMoveSetsClampedPercent ==
    ( /\ last.op = "mouseMove" /\ last.ran
      /\ IsFinite(last.x) /\ last.x.d = 1
      /\ IsFinite(last.rect.left) /\ last.rect.left.d = 1
      /\ IsFinite(last.rect.width) /\ last.rect.width.d = 1
      /\ last.rect.width.n > 0 )
    => /\ IsClampedPercent(chatbotWidth, last.x.n, last.rect.left.n,
                           last.rect.width.n, MinPercent(variant),
                           MaxPercent(variant))
       /\ ( last.x = Num(50) /\ last.rect.left = Num(0)
            /\ last.rect.width = Num(1000) )
          => chatbotWidth = (IF MaxPercent(variant) < 95
                             THEN Num(MaxPercent(variant)) ELSE Num(95))

\* C3 witness: the scenario in the build whose maxPercent (60) is below 95,
\* and a move whose result is strictly inside the range
C3_Witness ==
    /\ last.op = "mouseMove" /\ last.ran
    /\ last.x = Num(50) /\ last.rect = [left |-> Num(0), width |-> Num(1000)]
    /\ variant = "older"
    /\ chatbotWidth = Num(60)

\* C4: the two collapse flags are never both true; collapseAnalysis followed
\* by collapseChatbot ends with only the chat flag set, and collapseChatbot
\* followed by collapseAnalysis with only the analysis flag set.
C4_CollapseFlagsExclusive ==
    /\ ~(isAnalysisCollapsed /\ isChatbotCollapsed)
    /\ (last.op = "collapseChatbot" /\ prevOp = "collapseAnalysis")
       => (~isAnalysisCollapsed /\ isChatbotCollapsed)
    /\ (last.op = "collapseAnalysis" /\ prevOp = "collapseChatbot")
       => (isAnalysisCollapsed /\ ~isChatbotCollapsed)

\* C4 witness: collapseChatbot has just run right after collapseAnalysis
C4_Witness ==
    /\ last.op = "collapseChatbot" /\ prevOp = "collapseAnalysis"
    /\ isChatbotCollapsed /\ ~isAnalysisCollapsed

\* C5: in every reachable state, the analysis flag implies chatbotWidth = 95
\* and the chat flag implies chatbotWidth = 5, also when mousemove events of
\* a session that is still open arrive after the collapse.  (Refuted: the
\* collapse handlers leave isResizing alone and handleMouseMove does not
\* look at the flags.)
C5_CollapsedWidthPinned ==
    mounted =>
        /\ isAnalysisCollapsed => chatbotWidth = Num(MaxPercent(variant))
        /\ isChatbotCollapsed => chatbotWidth = Num(MinPercent(variant))

\* C6: after expandBoth, from whatever state it ran in, both collapse flags
\* are false and chatbotWidth is the default width of construction.
C6_ExpandBothRestoresDefault ==
    last.op = "expandBoth" =>
        /\ ~isAnalysisCollapsed
        /\ ~isChatbotCollapsed
        /\ chatbotWidth = DefaultWidth(variant)

\* C6 witness: expandBoth has just run right after collapseAnalysis
C6_Witness ==
    /\ last.op = "expandBoth" /\ prevOp = "collapseAnalysis"
    /\ chatbotWidth = Num(20)
    /\ ~isAnalysisCollapsed /\ ~isChatbotCollapsed

\* C7: round trip.  In every state of a mounted App, an App constructed
\* from the localStorage content of that state starts with the same
\* chatbotWidth and the same isChatbotVisible.
C7_RoundTrip ==
    mounted =>
        /\ InitialChatbotWidth(variant, store) = chatbotWidth
        /\ InitialChatbotVisible(variant, store) = isChatbotVisible

\* C7 witness: a second instance has just been mounted over what the first
\* one wrote, a width dragged to 40.5 and a hidden chat pane (no initial
\* localStorage content of the model holds either)
C7_Witness ==
    /\ last.op = "mount" /\ mounted
    /\ readAtMount.chatbotWidth = Str(<<"4", "0", ".", "5">>)
    /\ readAtMount.chatbotVisible = Str(S_false)
    /\ chatbotWidth = Fin(81, 2)
    /\ ~isChatbotVisible

\* C8: after every operation, localStorage "chatbotWidth" is the string of
\* the current chatbotWidth and (App.jsx) "chatbotVisible" is "true" or
\* "false" for the current isChatbotVisible.
C8_StoreInSync ==
    mounted =>
        /\ store.chatbotWidth = Str(NumberToString(chatbotWidth))
        /\ variant = "app" =>
              store.chatbotVisible = Str(BooleanToString(isChatbotVisible))

\* C8 witness: the chat pane was hidden after the width was dragged to 40.5
C8_Witness ==
    /\ mounted /\ last.op = "toggleVisible"
    /\ chatbotWidth = Fin(81, 2) /\ ~isChatbotVisible
    /\ store.chatbotWidth = Str(<<"4", "0", ".", "5">>)
    /\ store.chatbotVisible = Str(S_false)

\* C9: when "chatbotWidth" is absent, or is a string that does not parse to
\* a number, construction yields the default width of the build.  (Refuted:
\* a non-empty string that does not parse yields NaN.)
C9_UnparsableWidthFallsBack ==
    ( /\ last.op = "mount"
      /\ \/ ~readAtMount.chatbotWidth.has
         \/ IsNaN(ParseFloat(readAtMount.chatbotWidth.str)) )
    => chatbotWidth = DefaultWidth(variant)

\* C10: construction of App.jsx yields isChatbotVisible = false exactly when
\* "chatbotVisible" is the string "false"; absent, and every other string,
\* yield true.  (Refuted: every non-empty string other than "true" yields
\* false.)
C10_VisibleFalseOnlyForFalse ==
    (last.op = "mount" /\ variant = "app")
    => (isChatbotVisible <=> readAtMount.chatbotVisible # Str(S_false))

(***************************************************************************)
(* Properties of the separator's drag session and of the viewport handler  *)
(* (claims C11 to C15).                                                    *)
(***************************************************************************)
\* the layout fields other than isDesktop, the listeners and the store
LayoutKept ==
    UNCHANGED <<chatbotWidth, isChatbotVisible, isAnalysisCollapsed,
                isChatbotCollapsed, isResizing, listeners, store>>

\* C11: a mousemove handled in an open session over a degenerate container
\* (width 0) leaves chatbotWidth and every other layout field unchanged, and
\* the width it leaves is a finite Number.  (Refuted: handleMouseMove divides
\* by containerRect.width without looking at it: 0/0 gives NaN, and x/0
\* gives an infinity that the clamp turns into a bound.)
C11_DegenerateMoveChangesNothing ==
    [][ ( /\ last'.op = "mouseMove" /\ last'.ran
          /\ last'.rect.width = Num(0) )
        => ( /\ LayoutKept
             /\ UNCHANGED isDesktop
             /\ IsFinite(chatbotWidth') ) ]_vars

\* C12: a mousemove delivered while no drag session is open leaves the whole
\* layout state and localStorage unchanged (and the step exists: nothing is
\* thrown).
C12_MoveWithoutSessionChangesNothing ==
    [][ (last'.op = "mouseMove" /\ ~isResizing)
        => (LayoutKept /\ UNCHANGED <<isDesktop, mounted>>) ]_vars

\* C12 witness: a mousemove arrived with no session open, over a container
\* and at a position that would have given another width
C12_Witness ==
    /\ last.op = "mouseMove" /\ ~last.ran /\ ~isResizing
    /\ last.x = Num(500) /\ last.rect = [left |-> Num(0), width |-> Num(1000)]
    /\ chatbotWidth = Num(20)

\* C13: a mousedown on the separator is a no-op when a session is already
\* open or when the container width is 0: isResizing, chatbotWidth and the
\* attached listeners are unchanged.  (Refuted: the handler sets isResizing
\* whatever the container is.)
C13_MouseDownNoOpWhenOpenOrDegenerate ==
    [][ ( /\ last'.op = "mouseDown"
          /\ (isResizing \/ last'.rect.width = Num(0)) )
        => UNCHANGED <<isResizing, chatbotWidth, listeners>> ]_vars

\* C14: a mouseup leaves isResizing false and chatbotWidth as it was (the
\* value of the last mousemove), and that value is the one localStorage
\* holds afterwards; with no session open it changes nothing.
C14_MouseUpEndsSession ==
    [][ last'.op = "mouseUp"
        => ( /\ ~isResizing'
             /\ chatbotWidth' = chatbotWidth
             /\ store'.chatbotWidth = Str(NumberToString(chatbotWidth))
             /\ UNCHANGED <<isChatbotVisible, isAnalysisCollapsed,
                            isChatbotCollapsed, isDesktop>>
             /\ ~isResizing => LayoutKept ) ]_vars

\* C14 witness: a session has been closed by a mouseup after a mousemove
\* set the width to 40.5, and localStorage holds "40.5"
C14_Witness ==
    /\ last.op = "mouseUp" /\ last.ran /\ ~isResizing
    /\ chatbotWidth = Fin(81, 2)
    /\ store.chatbotWidth = Str(<<"4", "0", ".", "5">>)

\* C15: a window resize to width w sets isDesktop to (w >= 1024) and changes
\* nothing else: chatbotWidth, isChatbotVisible, both collapse flags,
\* isResizing and localStorage are as before (so repeating it changes
\* nothing more).
C15_ViewportSetsOnlyIsDesktop ==
    [][ last'.op = "viewport"
        => ( /\ isDesktop' = (last'.x.n >= 1024)
             /\ LayoutKept ) ]_vars

\* C15 witness: the viewport went to exactly 1024 during an open session
\* with the chat pane collapsed
C15_Witness ==
    /\ last.op = "viewport" /\ last.x = Num(1024) /\ isDesktop
    /\ isResizing /\ isChatbotCollapsed /\ chatbotWidth = Num(5)

(***************************************************************************)
(* Part 2: the SearchableSelect combobox.                                  *)
(* Strings are sequences of one-character strings.  An option is what the  *)
(* two accessors make of it: its label, its value, and whether computing   *)
(* the lower-cased label, or the value, throws for it.                     *)
(***************************************************************************)
UpperLetters ==
    <<"A", "B", "C", "D", "E", "F", "G", "H", "I", "J", "K", "L", "M",
      "N", "O", "P", "Q", "R", "S", "T", "U", "V", "W", "X", "Y", "Z">>

LowerLetters ==
    <<"a", "b", "c", "d", "e", "f", "g", "h", "i", "j", "k", "l", "m",
      "n", "o", "p", "q", "r", "s", "t", "u", "v", "w", "x", "y", "z">>

\* String.prototype.toLowerCase, one character
ToLowerCaseChar(c) ==
    IF \E i \in DOMAIN UpperLetters : UpperLetters[i] = c
    THEN LowerLetters[CHOOSE i \in DOMAIN UpperLetters : UpperLetters[i] = c]
    ELSE c

\* String.prototype.toLowerCase
ToLowerCase(str) ==
    IF str = <<>> THEN <<>>
    ELSE [i \in 1..Len(str) |-> ToLowerCaseChar(str[i])]

\* String.prototype.includes
Includes(str, sub) ==
    \E i \in 0..(Len(str) - Len(sub)) : SubSeq(str, i + 1, i + Len(sub)) = sub

Option(label, val) ==
    [label |-> label, value |-> val, labelThrows |-> FALSE,
     valueThrows |-> FALSE]

Alpha == Option(<<"A", "l", "p", "h", "a">>, "alpha")

Beta == Option(<<"B", "e", "t", "a">>, "beta")

Gamma == Option(<<"G", "a", "m", "m", "a">>, "gamma")

\* an option for which getOptionLabel(opt).toLowerCase() throws
BadLabel ==
    [label |-> <<>>, value |-> "badlabel", labelThrows |-> TRUE,
     valueThrows |-> FALSE]

\* an option for which getOptionValue(opt) throws
BadValue ==
    [label |-> <<"D", "e", "l", "t", "a">>, value |-> "", labelThrows |-> FALSE,
     valueThrows |-> TRUE]

\* the option arrays the parent passes
OptionLists ==
    { <<>>, <<Alpha, Beta>>, <<Alpha, Beta, Gamma>>,
      <<Alpha, BadLabel, BadValue>> }

\* the texts the user types into the input
Queries ==
    { <<>>, <<"a", "l">>, <<"A", "L">>, <<"e">>, <<"z">> }

\* the keys of keydown events
Keys == {"Enter", "ArrowDown", "ArrowUp", "Escape", "Tab"}

\* a filter that compares the label and the search term as they are
FilterMatches_CaseSensitive(opt, term) ==
    /\ ~opt.labelThrows
    /\ Includes(opt.label, term)

\* try { const label = getOptionLabel(opt).toLowerCase();
\*       return label.includes(searchTerm.toLowerCase()); }
\* catch (e) { ...; return false; }
FilterMatches(opt, term) ==
    /\ ~opt.labelThrows
    /\ Includes(ToLowerCase(opt.label), ToLowerCase(term))

\* Array.isArray(options) ? options.filter(...) : []
\* (options is an array in every state of the model)
FilterOptions(opts, term) ==
    SelectSeq(opts, LAMBDA opt : FilterMatches(opt, term))

filteredOptions == FilterOptions(options, searchTerm)

\* the layout of Part 1 as constructed over an empty localStorage, left alone
LayoutIdle ==
    LET c == Constructed("app", NoRead, Breakpoint)
    IN  /\ variant = "app"
        /\ mounted = TRUE
        /\ store = c.store
        /\ chatbotWidth = c.chatbotWidth
        /\ isDesktop = c.isDesktop
        /\ isChatbotVisible = c.isChatbotVisible
        /\ isAnalysisCollapsed = c.isAnalysisCollapsed
        /\ isChatbotCollapsed = c.isChatbotCollapsed
        /\ isResizing = c.isResizing
        /\ listeners = c.listeners
        /\ last = Op("mount")
        /\ prevOp = "other"
        /\ readAtMount = NoRead

ComboInit ==
    /\ LayoutIdle
    /\ FetchIdle
    /\ ChatIdle
    /\ ConnIdle
    /\ \E opts \in OptionLists, dis \in BOOLEAN, acc \in BOOLEAN :
          SelectConstructed(opts, "", dis, acc)

\* a component that renders its widget whatever accessors it is given
AccessorsMissing_Ignored == FALSE

\* if (!getOptionLabel || !getOptionValue) { ...; return <error box>; }
AccessorsMissing == ~accessors

\* the history of an event keeps the three states it found
Before(o) ==
    [o EXCEPT !.wasOpen = isOpen, !.hadTerm = searchTerm,
              !.hadIndex = highlightedIndex]

\* one re-render after a handler: the states it set, the value the parent
\* holds, and the history
CbSet(open, term, hi, val, o) ==
    /\ isOpen' = open
    /\ searchTerm' = term
    /\ highlightedIndex' = hi
    /\ value' = val
    /\ cbLast' = Before(o)
    /\ UNCHANGED <<options, disabled, accessors>>

\* an event that sets nothing
CbNothing(o) == CbSet(isOpen, searchTerm, highlightedIndex, value, o)

\* handleSelect(option): the parent's onChange stores the value it is given
\* (Chatbot.jsx: onSelect(project?.project_name || '', ...)); a throw of
\* getOptionValue is caught before onChange and before the three setters
HandleSelect(option, o) ==
    IF option.valueThrows
    THEN CbNothing(o)
    ELSE CbSet(FALSE, <<>>, -1, option.value,
               [o EXCEPT !.calls = 1, !.arg = option.value])

\* if (highlightedIndex >= 0 && filteredOptions[highlightedIndex])
EnterCommits ==
    highlightedIndex >= 0 /\ highlightedIndex < Len(filteredOptions)

\* handleKeyDown, key Enter
KeyEnter(o) ==
    IF EnterCommits
    THEN HandleSelect(filteredOptions[highlightedIndex + 1], o)
    ELSE IF isOpen
    THEN CbSet(FALSE, searchTerm, highlightedIndex, value, o)
    ELSE CbSet(TRUE, searchTerm, highlightedIndex, value, o)

\* handleKeyDown, key ArrowDown
KeyArrowDown(o) ==
    IF ~isOpen
    THEN CbSet(TRUE, searchTerm, highlightedIndex, value, o)
    ELSE CbSet(isOpen, searchTerm,
               IF highlightedIndex < Len(filteredOptions) - 1
               THEN highlightedIndex + 1 ELSE highlightedIndex,
               value, o)

\* handleKeyDown, key ArrowUp: setHighlightedIndex(prev => prev > 0 ? prev - 1 : 0)
KeyArrowUp(o) ==
    CbSet(isOpen, searchTerm,
          IF highlightedIndex > 0 THEN highlightedIndex - 1 ELSE 0, value, o)

\* handleKeyDown, key Escape
KeyEscape(o) == CbSet(FALSE, <<>>, -1, value, o)

\* a keydown event on the input: handleKeyDown.  (Without the accessors the
\* component renders its error box and no input.)
KeyDown(key) ==
    LET o == [CbOp("keyDown") EXCEPT !.key = key]
    IN  IF AccessorsMissing \/ disabled THEN CbNothing(o)
        ELSE CASE key = "Enter" -> KeyEnter(o)
               [] key = "ArrowDown" -> KeyArrowDown(o)
               [] key = "ArrowUp" -> KeyArrowUp(o)
               [] key = "Escape" -> KeyEscape(o)
               [] OTHER -> CbNothing(o)

\* {isOpen && !disabled && ( ... filteredOptions.map(...) ... )}: the i-th
\* filtered option has a list item iff getOptionValue does not throw for it
OptionRendered(i) ==
    /\ ~AccessorsMissing /\ isOpen /\ ~disabled
    /\ i \in 1..Len(filteredOptions)
    /\ ~filteredOptions[i].valueThrows

\* onClick={() => handleSelect(option)} of a list item
OptionClick(i) ==
    /\ OptionRendered(i)
    /\ HandleSelect(filteredOptions[i], [CbOp("optionClick") EXCEPT !.index = i - 1])

\* a hover that selects the option it enters
OptionMouseEnter_Selects(i) ==
    /\ OptionRendered(i)
    /\ HandleSelect(filteredOptions[i],
                    [CbOp("optionMouseEnter") EXCEPT !.index = i - 1])

\* onMouseEnter={() => setHighlightedIndex(index)} of a list item
OptionMouseEnter(i) ==
    /\ OptionRendered(i)
    /\ CbSet(isOpen, searchTerm, i - 1, value,
             [CbOp("optionMouseEnter") EXCEPT !.index = i - 1])

\* a change of the text that keeps the highlight
InputChange_KeepsHighlight(text) ==
    /\ ~AccessorsMissing /\ ~disabled
    /\ CbSet(TRUE, text, highlightedIndex, value,
             [CbOp("inputChange") EXCEPT !.text = text])

\* a change event of the input (which is rendered with disabled={disabled}):
\* handleInputChange
InputChange(text) ==
    /\ ~AccessorsMissing /\ ~disabled
    /\ CbSet(TRUE, text, -1, value, [CbOp("inputChange") EXCEPT !.text = text])

\* a focus event of the input: handleFocus
InputFocus ==
    /\ ~AccessorsMissing
    /\ IF disabled THEN CbNothing(CbOp("focus"))
       ELSE CbSet(TRUE, <<>>, highlightedIndex, value, CbOp("focus"))

\* onClick={() => !disabled && setIsOpen(!isOpen)} of the input's box
ContainerClick ==
    /\ ~AccessorsMissing
    /\ IF disabled THEN CbNothing(CbOp("containerClick"))
       ELSE CbSet(~isOpen, searchTerm, highlightedIndex, value,
                  CbOp("containerClick"))

\* an outside click that closes and keeps the search term
OutsideMouseDown_KeepsTerm ==
    IF AccessorsMissing
    THEN CbNothing(CbOp("outsideMouseDown"))
    ELSE CbSet(FALSE, searchTerm, -1, value, CbOp("outsideMouseDown"))

\* a mousedown on the document outside the component: handleClickOutside
\* (registered, and dropdownRef set, only when the accessors are given)
OutsideMouseDown ==
    IF AccessorsMissing
    THEN CbNothing(CbOp("outsideMouseDown"))
    ELSE CbSet(FALSE, <<>>, -1, value, CbOp("outsideMouseDown"))

\* the parent renders the component with other props; its states are kept
ParentRender(opts, dis) ==
    /\ options' = opts
    /\ disabled' = dis
    /\ cbLast' = Before(CbOp("props"))
    /\ UNCHANGED <<value, accessors, isOpen, searchTerm, highlightedIndex>>

ComboNext ==
    \/ \E key \in Keys : KeyDown(key) /\ UNCHANGED exceptCombo
    \/ \E i \in 1..Len(options) : OptionClick(i) /\ UNCHANGED exceptCombo
    \/ \E i \in 1..Len(options) : OptionMouseEnter(i) /\ UNCHANGED exceptCombo
    \/ \E text \in Queries : InputChange(text) /\ UNCHANGED exceptCombo
    \/ InputFocus /\ UNCHANGED exceptCombo
    \/ ContainerClick /\ UNCHANGED exceptCombo
    \/ OutsideMouseDown /\ UNCHANGED exceptCombo
    \/ \E opts \in OptionLists, dis \in BOOLEAN :
          ParentRender(opts, dis) /\ UNCHANGED exceptCombo

ComboSpec == ComboInit /\ [][ComboNext]_vars

(***************************************************************************)
(* Properties of the combobox (claims C16 to C20), under ComboSpec.        *)
(***************************************************************************)
\* a and b are the same letter, whatever their case
SameLetter(a, b) ==
    \/ a = b
    \/ \E i \in DOMAIN UpperLetters :
          {a, b} = {UpperLetters[i], LowerLetters[i]}

\* q occurs in label, letter case ignored
ContainsIgnoringCase(label, q) ==
    \E k \in 0..(Len(label) - Len(q)) :
        \A j \in 1..Len(q) : SameLetter(label[k + j], q[j])

\* f is the subsequence of opts, in the order of opts, of the options whose
\* label contains q
IsMatchingSubsequence(f, opts, q) ==
    LET matching == {i \in 1..Len(opts) : ContainsIgnoringCase(opts[i].label, q)}
    IN  \E pos \in [1..Len(f) -> 1..Len(opts)] :
            /\ \A k \in 1..Len(f) : f[k] = opts[pos[k]]
            /\ \A k \in 1..(Len(f) - 1) : pos[k] < pos[k + 1]
            /\ {pos[k] : k \in 1..Len(f)} = matching

\* the widget reacts to the keyboard: accessors given, not disabled
KeysHandled == accessors /\ ~disabled

\* the last event was a keydown of this key, handled
KeyHandled(key) ==
    cbLast'.op = "keyDown" /\ cbLast'.key = key /\ KeysHandled

\* C16: whenever the accessors return a label for every option,
\* filteredOptions is the subsequence of options, in their order, of the
\* options whose label contains searchTerm as a case-insensitive substring;
\* for searchTerm "" it is options itself, and for options [Alpha, Beta] and
\* searchTerm "al" it is [Alpha].
C16_FilteredOptionsIsMatchingSubsequence ==
    (accessors /\ \A i \in 1..Len(options) : ~options[i].labelThrows)
    => /\ IsMatchingSubsequence(filteredOptions, options, searchTerm)
       /\ searchTerm = <<>> => filteredOptions = options
       /\ (options = <<Alpha, Beta>> /\ searchTerm = <<"a", "l">>)
          => filteredOptions = <<Alpha>>

\* C16 witness: "al" was typed over [Alpha, Beta] and the list shows Alpha
C16_Witness ==
    /\ accessors /\ ~disabled /\ isOpen
    /\ cbLast.op = "inputChange"
    /\ options = <<Alpha, Beta>> /\ searchTerm = <<"a", "l">>
    /\ filteredOptions = <<Alpha>>

\* C17: ArrowDown on a closed combobox opens it and leaves highlightedIndex
\* unchanged at -1; on an open one with no highlight (and something to
\* highlight) it sets highlightedIndex to 0; on an open one with a highlight
\* it moves to the next index and stays at the last one.  (Refuted: a closed
\* combobox can hold a highlight, which ArrowDown then opens with.)
C17_ArrowDown ==
    [][ KeyHandled("ArrowDown")
        => /\ ~isOpen => ( /\ isOpen'
                           /\ highlightedIndex' = highlightedIndex
                           /\ highlightedIndex' = -1 )
           /\ (isOpen /\ highlightedIndex = -1 /\ Len(filteredOptions) > 0)
              => highlightedIndex' = 0
           /\ (isOpen /\ highlightedIndex >= 0)
              => highlightedIndex' =
                   (IF highlightedIndex < Len(filteredOptions) - 1
                    THEN highlightedIndex + 1 ELSE highlightedIndex) ]_vars

\* C18: Enter on a closed combobox with no highlight opens it and calls no
\* onChange; on an open one with no highlight it closes it, with searchTerm
\* reset to "" and highlightedIndex to -1, and calls no onChange; on an open
\* one with a highlight it calls onChange for the highlighted option.
\* (Refuted: the close by Enter keeps searchTerm.)
C18_Enter ==
    [][ KeyHandled("Enter")
        => /\ (~isOpen /\ highlightedIndex = -1)
              => (isOpen' /\ cbLast'.calls = 0)
           /\ (isOpen /\ highlightedIndex = -1)
              => ( /\ ~isOpen' /\ searchTerm' = <<>>
                   /\ highlightedIndex' = -1 /\ cbLast'.calls = 0 )
           /\ ( /\ isOpen /\ highlightedIndex >= 0
                /\ highlightedIndex < Len(filteredOptions)
                /\ ~filteredOptions[highlightedIndex + 1].valueThrows )
              => ( /\ cbLast'.calls = 1
                   /\ cbLast'.arg = filteredOptions[highlightedIndex + 1].value )
      ]_vars

\* C19: ArrowUp changes nothing on a closed combobox, and nothing on an open
\* one with no highlight; with a highlight it moves to the index before and
\* stays at 0.  (Refuted: ArrowUp turns -1 into 0, open or closed.)
C19_ArrowUp ==
    [][ KeyHandled("ArrowUp")
        => /\ ~isOpen
              => UNCHANGED <<isOpen, searchTerm, highlightedIndex, value>>
           /\ (isOpen /\ highlightedIndex = -1) => highlightedIndex' = -1
           /\ (isOpen /\ highlightedIndex >= 0)
              => highlightedIndex' =
                   (IF highlightedIndex > 0 THEN highlightedIndex - 1 ELSE 0)
      ]_vars

\* C20: Escape changes nothing on a closed combobox; on an open one it
\* closes it and sets searchTerm to "" and highlightedIndex to -1; it never
\* calls onChange.  (Refuted: Escape resets searchTerm and highlightedIndex
\* of a closed combobox as well.)
C20_Escape ==
    [][ KeyHandled("Escape")
        => /\ ~isOpen
              => UNCHANGED <<isOpen, searchTerm, highlightedIndex, value>>
           /\ isOpen => ( /\ ~isOpen' /\ searchTerm' = <<>>
                          /\ highlightedIndex' = -1 )
           /\ cbLast'.calls = 0
           /\ value' = value ]_vars

(***************************************************************************)
(* Properties of the combobox (claims C21 to C29), under ComboSpec, and of *)
(* the drag session (claim C30), under Spec.                               *)
(***************************************************************************)
\* C21: a commit (Enter on a highlighted filtered option, or a click on an
\* option, whatever the highlight) calls onChange exactly once, with the
\* value of that option, and leaves the combobox closed with searchTerm ""
\* and highlightedIndex -1; a click and highlight-then-Enter end alike.
\* (Refuted: a filtered option whose getOptionValue throws can be
\* highlighted, and Enter on it calls nothing and closes nothing.)
C21_CommitCallsOnChangeOnce ==
    [][ LET enter == KeyHandled("Enter") /\ EnterCommits
            click == cbLast'.op = "optionClick"
            o     == IF click THEN filteredOptions[cbLast'.index + 1]
                     ELSE filteredOptions[highlightedIndex + 1]
        IN  (enter \/ click)
            => ( /\ cbLast'.calls = 1
                 /\ cbLast'.arg = o.value
                 /\ ~isOpen' /\ searchTerm' = <<>>
                 /\ highlightedIndex' = -1 ) ]_vars

\* C22: onChange is called, and the selection changes, only in a commit: a
\* click on an option, or Enter with a highlighted filtered option.  No text
\* change, arrow key, Escape, focus, hover, toggle, outside click or new
\* props does either.
C22_OnChangeOnlyByCommit ==
    [][ (cbLast'.calls # 0 \/ value' # value)
        => ( /\ cbLast'.calls = 1
             /\ \/ cbLast'.op = "optionClick"
                \/ /\ cbLast'.op = "keyDown" /\ cbLast'.key = "Enter"
                   /\ highlightedIndex >= 0
                   /\ highlightedIndex < Len(filteredOptions) ) ]_vars

\* C22 witness: Escape on an open list with a highlight, after a selection
\* of Alpha that is still the selection
C22_Witness ==
    /\ cbLast.op = "keyDown" /\ cbLast.key = "Escape"
    /\ cbLast.wasOpen /\ cbLast.hadIndex = 1
    /\ cbLast.calls = 0 /\ value = "alpha"

\* C23: a mousedown outside the component leaves, from whatever state,
\* isOpen false, searchTerm "" and highlightedIndex -1, and calls no
\* onChange.
C23_OutsideMouseDownResets ==
    [][ cbLast'.op = "outsideMouseDown"
        => ( /\ ~isOpen' /\ searchTerm' = <<>> /\ highlightedIndex' = -1
             /\ cbLast'.calls = 0 /\ value' = value ) ]_vars

\* C23 witness: the outside click found the list open, "al" typed and the
\* first option highlighted
C23_Witness ==
    /\ cbLast.op = "outsideMouseDown"
    /\ cbLast.wasOpen /\ cbLast.hadTerm = <<"a", "l">> /\ cbLast.hadIndex = 0
    /\ ~isOpen /\ searchTerm = <<>> /\ highlightedIndex = -1

\* C24: while disabled is true, every event of the combobox leaves isOpen,
\* searchTerm and highlightedIndex as they are and calls no onChange.
\* (Refuted: handleClickOutside does not look at disabled.)
C24_DisabledChangesNothing ==
    [][ (disabled /\ cbLast'.op # "props")
        => ( /\ UNCHANGED <<isOpen, searchTerm, highlightedIndex>>
             /\ cbLast'.calls = 0 ) ]_vars

\* C25: a change of the input's text to t leaves searchTerm = t,
\* highlightedIndex = -1 whatever it was, and the list open, opened if it was
\* closed; it calls no onChange.
C25_InputChangeSetsQuery ==
    [][ cbLast'.op = "inputChange"
        => ( /\ searchTerm' = cbLast'.text
             /\ highlightedIndex' = -1
             /\ isOpen'
             /\ cbLast'.calls = 0 /\ value' = value ) ]_vars

\* C25 witness: "e" was typed into a closed combobox that held a highlight
C25_Witness ==
    /\ cbLast.op = "inputChange" /\ cbLast.text = <<"e">>
    /\ ~cbLast.wasOpen /\ cbLast.hadIndex = 0
    /\ isOpen /\ searchTerm = <<"e">> /\ highlightedIndex = -1

\* C26: a combobox constructed without getOptionLabel or getOptionValue
\* stays as constructed: no event changes isOpen, searchTerm,
\* highlightedIndex or the selection, the list never opens, and onChange is
\* never called.
C26_MissingAccessorsIsTerminal ==
    [][ ~accessors
        => ( /\ UNCHANGED <<isOpen, searchTerm, highlightedIndex, value>>
             /\ ~isOpen'
             /\ cbLast'.calls = 0 ) ]_vars

\* C26 witness: ArrowDown arrived at a combobox without accessors that has
\* options and is not disabled, and the list is closed
C26_Witness ==
    /\ ~accessors /\ ~disabled /\ options = <<Alpha, Beta>>
    /\ cbLast.op = "keyDown" /\ cbLast.key = "ArrowDown"
    /\ ~isOpen /\ highlightedIndex = -1

\* C27: an option for which an accessor throws is not in filteredOptions,
\* so that no arrow key highlights it and nothing commits it, and every
\* other option whose label matches is in filteredOptions.  (Refuted: the
\* filter calls getOptionLabel only; an option whose getOptionValue throws
\* stays in filteredOptions and takes a highlight.)
C27_ThrowingOptionExcluded ==
    accessors
    => /\ \A i \in 1..Len(filteredOptions) :
            ~filteredOptions[i].labelThrows /\ ~filteredOptions[i].valueThrows
       /\ \A i \in 1..Len(options) :
            ( /\ ~options[i].labelThrows /\ ~options[i].valueThrows
              /\ ContainsIgnoringCase(options[i].label, searchTerm) )
            => \E k \in 1..Len(filteredOptions) : filteredOptions[k] = options[i]

\* C28: in every state highlightedIndex is within [-1, filteredCount - 1].
\* (Refuted: ArrowUp sets 0 over an empty filtered list, and new options
\* leave the index where it was.)
C28_HighlightInRange ==
    accessors
    => (highlightedIndex >= -1 /\ highlightedIndex <= Len(filteredOptions) - 1)

\* C29: in every state where the combobox is closed, searchTerm is "" and
\* highlightedIndex is -1.  (Refuted: the closes by Enter and by the click
\* toggle reset neither, and ArrowUp highlights while closed.)
C29_ClosedIsNeutral ==
    ~isOpen => (searchTerm = <<>> /\ highlightedIndex = -1)

\* C30: in every state of the layout, isResizing implies that neither
\* collapse flag is set.  (Refuted: the collapse handlers do not look at
\* isResizing, and set their flag during an open session.)
C30_ResizingOnlyWhenBalanced ==
    (mounted /\ isResizing) => (~isAnalysisCollapsed /\ ~isChatbotCollapsed)

C32_CollapseFlagsOnlyByCollapseHandlers ==
    [][ /\ last'.op = "mount"
           => (~isAnalysisCollapsed' /\ ~isChatbotCollapsed')
        /\ last'.op \in {"mouseDown", "mouseMove", "mouseUp", "toggleVisible",
                          "viewport"}
           => UNCHANGED <<isAnalysisCollapsed, isChatbotCollapsed>>
        /\ (~UNCHANGED <<isAnalysisCollapsed, isChatbotCollapsed>>)
           => last'.op \in {"collapseAnalysis", "collapseChatbot",
                             "expandBoth", "mount"} ]_vars

\* C32 witness: the chat pane was hidden while the analysis pane was
\* collapsed, and the flag is still set
C32_Witness ==
    /\ last.op = "toggleVisible" /\ ~isChatbotVisible
    /\ isAnalysisCollapsed /\ ~isChatbotCollapsed

\* C39: onChange is called only by an event that found the list open.
\* (Refuted: Enter commits the option at highlightedIndex whether the list
\* is open or not, and ArrowUp highlights index 0 on a closed combobox.)
C39_NoCommitWhileClosed ==
    cbLast.calls # 0 => cbLast.wasOpen

(***************************************************************************)
(* Part 3: App.handleSelect and the project data it loads.                 *)
(***************************************************************************)

\* The projects ProjectSelector lists, as project_name and project_key
\* (project_key || '' when the backend sent none).
ProjectNames == {"A", "B", "C"}

ProjectKeyOf(name) ==
    CASE name = "A" -> "kA"
      [] name = "B" -> "kB"
      [] OTHER -> ""

\* meeting_name of the meetings offered ('' when the backend sent none)
MeetingNames == {"", "m1", "m2"}

\* how a request fails: err.response?.data?.detail and err.message
Failures ==
    { [detail |-> "Project not found", message |-> "Request failed"],
      [detail |-> "", message |-> "Request timeout. Please check if the backend server is running."],
      [detail |-> "", message |-> ""] }

FailedToLoad == "Failed to load project data. Please try again."

KeyNotFound == "Project key not found. Please select the project again."

\* err.response?.data?.detail || err.message || 'Failed to load ...'
ErrorMessage(err) ==
    IF err.detail # "" THEN err.detail
    ELSE IF err.message # "" THEN err.message
    ELSE FailedToLoad

ErrorOf(msg) == [has |-> TRUE, msg |-> msg]

\* response.data of GET /project/<key>
DataOf(key) == [has |-> TRUE, key |-> key]

MaxRequests == 3

ShouldFetch_IgnoresMeeting(p, keyToUse, m) == p # "" /\ keyToUse # ""

\* if (projectName && keyToUse && meetingName)
ShouldFetch(p, keyToUse, m) == p # "" /\ keyToUse # "" /\ m # ""

\* handleSelect(projectName, meetingName, projectKeyValue) up to its await
AppHandleSelect(p, m, k) ==
    LET keyToUse == IF k # "" THEN k ELSE projectKey
        op == [FetchOp("select") EXCEPT !.project = p, !.meeting = m,
                   !.key = k, !.storedKey = projectKey, !.hadError = error,
                   !.inFlight = Cardinality(requests)]
    IN  /\ reqCount < MaxRequests
        /\ selectedProject' = p
        /\ selectedMeeting' = m
        /\ projectKey' = IF k # "" THEN k ELSE projectKey
        /\ IF ShouldFetch(p, keyToUse, m)
           THEN /\ error' = NoError
                /\ projectData' = NoData
                /\ loading' = TRUE
                /\ reqCount' = reqCount + 1
                /\ requests' = requests \cup {[id |-> reqCount + 1, key |-> keyToUse]}
                /\ latest' = [id |-> reqCount + 1, settled |-> FALSE, data |-> NoData]
                /\ fetchLast' = [op EXCEPT !.started = TRUE, !.id = reqCount + 1]
           ELSE /\ error' = IF m # "" /\ p # "" /\ keyToUse = ""
                             THEN ErrorOf(KeyNotFound) ELSE NoError
                /\ projectData' = IF m = "" \/ (p # "" /\ keyToUse = "")
                                   THEN NoData ELSE projectData
                /\ latest' = NoRequest
                /\ fetchLast' = op
                /\ UNCHANGED <<loading, requests, reqCount>>

\* ProjectSelector's project onChange:
\* onSelect(project?.project_name || '', '', projectKey)
SelectProject(name) ==
    AppHandleSelect(name, "", ProjectKeyOf(name))

\* ProjectSelector's meeting onChange (the meeting selector is disabled
\* while no project is selected):
\* onSelect(selectedProject, meetingName, project?.project_key || selectedProjectKey)
SelectMeeting(m) ==
    /\ selectedProject # ""
    /\ AppHandleSelect(selectedProject, m, ProjectKeyOf(selectedProject))

Settle(r, data) ==
    /\ requests' = requests \ {r}
    /\ latest' = IF latest.id = r.id
                  THEN [latest EXCEPT !.settled = TRUE, !.data = data]
                  ELSE latest
    /\ UNCHANGED <<selectedProject, selectedMeeting, projectKey, reqCount>>

\* getProjectData resolves: setProjectData(data); finally setLoading(false)
RequestSucceeds(r) ==
    /\ r \in requests
    /\ projectData' = DataOf(r.key)
    /\ loading' = FALSE
    /\ fetchLast' = [FetchOp("succeeds") EXCEPT !.id = r.id,
                        !.inFlight = Cardinality(requests)]
    /\ Settle(r, DataOf(r.key))
    /\ UNCHANGED error

\* getProjectData rejects: setError(errorMessage); setProjectData(null);
\* finally setLoading(false)
RequestFails(r, err) ==
    /\ r \in requests
    /\ error' = ErrorOf(ErrorMessage(err))
    /\ projectData' = NoData
    /\ loading' = FALSE
    /\ fetchLast' = [FetchOp("fails") EXCEPT !.id = r.id,
                        !.inFlight = Cardinality(requests)]
    /\ Settle(r, NoData)

\* every part as constructed
PartsIdle ==
    /\ LayoutIdle
    /\ SelectIdle
    /\ FetchIdle
    /\ ChatIdle
    /\ ConnIdle

FetchNext ==
    \/ \E name \in ProjectNames \cup {""} : SelectProject(name) /\ UNCHANGED exceptFetch
    \/ \E m \in MeetingNames : SelectMeeting(m) /\ UNCHANGED exceptFetch
    \/ \E r \in requests : RequestSucceeds(r) /\ UNCHANGED exceptFetch
    \/ \E r \in requests, err \in Failures : RequestFails(r, err) /\ UNCHANGED exceptFetch

FetchSpec == PartsIdle /\ [][FetchNext]_vars

\* C33: once every project-data request has settled, projectData is what
\* the most recent handleSelect obtained: the data of its request, or null
\* when it started no request or its request failed.
C33_ProjectDataIsOfLatestSelection ==
    requests = {} => projectData = latest.data

\* C34: loading is true exactly while a project-data request is in flight.
C34_LoadingWhileInFlight ==
    loading <=> requests # {}

\* C35: handleSelect starts a fetch exactly when project, key (supplied or
\* stored) and meeting are all non-empty; with an empty meeting it clears
\* projectData and fetches nothing; with project and meeting but no key it
\* sets the 'Project key not found' error and clears projectData; any
\* error shown before the call is gone after it.
C35_HandleSelectFetchesIffComplete ==
    fetchLast.op = "select" =>
        LET p == fetchLast.project
            m == fetchLast.meeting
            keyToUse == IF fetchLast.key # "" THEN fetchLast.key
                        ELSE fetchLast.storedKey
            complete == p # "" /\ keyToUse # "" /\ m # ""
        IN  /\ fetchLast.started <=> complete
            /\ fetchLast.started =>
                   /\ Cardinality(requests) = fetchLast.inFlight + 1
                   /\ \E r \in requests : r.id = fetchLast.id /\ r.key = keyToUse
                   /\ error = NoError
            /\ ~fetchLast.started => Cardinality(requests) = fetchLast.inFlight
            /\ m = "" => ~fetchLast.started /\ projectData = NoData /\ error = NoError
            /\ (p # "" /\ m # "" /\ keyToUse = "") =>
                   /\ ~fetchLast.started
                   /\ error = ErrorOf(KeyNotFound)
                   /\ projectData = NoData
            /\ error # ErrorOf(KeyNotFound) => error = NoError

\* a meeting of project A is selected while an earlier failure is shown,
\* and the fetch starts
C35_Witness ==
    /\ fetchLast.op = "select"
    /\ fetchLast.started
    /\ fetchLast.hadError.has
    /\ fetchLast.project = "A"
    /\ fetchLast.meeting = "m2"
    /\ loading

(***************************************************************************)
(* Part 4: the Chatbot.                                                    *)
(***************************************************************************)

RECURSIVE TrimRight(_)
TrimRight(s) ==
    IF s # <<>> /\ s[Len(s)] = " " THEN TrimRight(SubSeq(s, 1, Len(s) - 1)) ELSE s

\* String.prototype.trim
Trim(s) == TrimRight(TrimLeft(s))

\* what the user types
ChatTexts == { <<>>, <<" ">>, <<"h", "i">>, <<" ", "o", "k", " ">> }

\* the props App passes: selectedProject and selectedMeeting
ChatProjects == {"", "A", "B"}

ChatMeetings == {"", "m1"}

\* how chatWithOrbit fails: error.response (with its status) or none, and
\* error.message
ChatFailures ==
    { [hasResponse |-> TRUE, status |-> 404, message |-> "Request failed with status code 404"],
      [hasResponse |-> TRUE, status |-> 500, message |-> "Request failed with status code 500"],
      [hasResponse |-> TRUE, status |-> 422, message |-> "Request failed with status code 422"],
      [hasResponse |-> FALSE, status |-> 0, message |-> "Request timeout. Please check if the backend server is running."],
      [hasResponse |-> FALSE, status |-> 0, message |-> ""] }

\* the errorMessage handleSend's catch block builds
ChatErrorKind(err) ==
    IF err.hasResponse
    THEN CASE err.status = 404 -> "projectNotFound"
           [] err.status = 500 -> "serverError"
           [] OTHER -> "errorStatus"
    ELSE IF err.message # "" THEN "errorMessage" ELSE "sorry"

MaxSends == 2

MaxChatInstances == 3

\* the negation of: if (!input.trim() || !projectName || loading) return;
SendAccepted(text, p, busy) == Trim(text) # <<>> /\ p # "" /\ ~busy

\* the text input's onChange; the input is disabled={!projectName || loading}
ChatInputChange(text) ==
    /\ chatMounted
    /\ projectName # ""
    /\ ~chatLoading
    /\ input' = text
    /\ chatLast' = [ChatOp("input") EXCEPT !.text = text,
                       !.inFlight = Cardinality(chatRequests)]
    /\ UNCHANGED <<chatMounted, chatInstance, projectName, meetingName, messages,
                   chatLoading, chatRequests, chatSent, chatSince>>

\* handleSend up to its await, for a submit event of the form
HandleSend ==
    LET op == [ChatOp("send") EXCEPT !.text = input, !.wasLoading = chatLoading,
                   !.inFlight = Cardinality(chatRequests)]
    IN  /\ chatMounted
        /\ chatSent < MaxSends
        /\ IF SendAccepted(input, projectName, chatLoading)
           THEN /\ messages' = Append(messages,
                       Msg("user", "question", chatSent + 1, input, "", ""))
                /\ input' = <<>>
                /\ chatLoading' = TRUE
                /\ chatSent' = chatSent + 1
                /\ chatRequests' = chatRequests \cup
                       {[id |-> chatSent + 1, instance |-> chatInstance,
                         project |-> projectName, question |-> input]}
                /\ chatLast' = [op EXCEPT !.accepted = TRUE, !.req = chatSent + 1]
           ELSE /\ chatLast' = op
                /\ UNCHANGED <<messages, input, chatLoading, chatSent, chatRequests>>
        /\ UNCHANGED <<chatMounted, chatInstance, projectName, meetingName, chatSince>>

\* The continuation of handleSend after its await, with the assistant
\* message it builds.  The setters of a Chatbot that was unmounted in the
\* meantime change nothing.
ChatSettle(r, kind, name) ==
    LET alive == chatMounted /\ r.instance = chatInstance
    IN  /\ r \in chatRequests
        /\ chatRequests' = chatRequests \ {r}
        /\ IF alive
           THEN /\ messages' = Append(messages,
                       Msg("assistant", kind, r.id, r.question, "", ""))
                /\ chatLoading' = FALSE
           ELSE UNCHANGED <<messages, chatLoading>>
        /\ chatLast' = [ChatOp(name) EXCEPT !.req = r.id, !.orphan = ~alive,
                           !.wasLoading = chatLoading,
                           !.inFlight = Cardinality(chatRequests)]
        /\ UNCHANGED <<chatMounted, chatInstance, projectName, meetingName, input,
                       chatSent, chatSince>>

\* chatWithOrbit resolves: setMessages(prev => [...prev, assistantMessage])
ReplyArrives(r) == ChatSettle(r, "answer", "reply")

\* chatWithOrbit rejects: setMessages(prev => [...prev, errorMsg])
ReplyFails(r, err) == ChatSettle(r, ChatErrorKind(err), "fails")

\* App re-renders the Chatbot with another project or meeting: the
\* welcome-message effect runs, the other state stays
ChatPropsChange(p, m) ==
    /\ chatMounted
    /\ <<p, m>> # <<projectName, meetingName>>
    /\ p = "" => m = ""
    /\ projectName' = p
    /\ meetingName' = m
    /\ messages' = WelcomeMessages(p, m)
    /\ chatSince' = chatSent
    /\ chatLast' = [ChatOp("props") EXCEPT !.wasLoading = chatLoading,
                       !.inFlight = Cardinality(chatRequests)]
    /\ UNCHANGED <<chatMounted, chatInstance, input, chatLoading, chatRequests,
                   chatSent>>

\* App hides the chat pane ({isChatbotVisible && <Chatbot .../>}): the
\* Chatbot and its state are gone, its requests are not cancelled
ChatUnmount ==
    /\ chatMounted
    /\ chatMounted' = FALSE
    /\ messages' = <<>>
    /\ input' = <<>>
    /\ chatLoading' = FALSE
    /\ chatLast' = [ChatOp("unmount") EXCEPT !.wasLoading = chatLoading,
                       !.inFlight = Cardinality(chatRequests)]
    /\ UNCHANGED <<chatInstance, projectName, meetingName, chatRequests, chatSent,
                   chatSince>>

\* App shows the chat pane again, with the selection of that moment
ChatMount(p, m) ==
    /\ ~chatMounted
    /\ chatInstance < MaxChatInstances
    /\ p = "" => m = ""
    /\ chatMounted' = TRUE
    /\ projectName' = p
    /\ meetingName' = m
    /\ messages' = WelcomeMessages(p, m)
    /\ input' = <<>>
    /\ chatLoading' = FALSE
    /\ chatInstance' = chatInstance + 1
    /\ chatSince' = chatSent
    /\ chatLast' = [ChatOp("mount") EXCEPT !.inFlight = Cardinality(chatRequests)]
    /\ UNCHANGED <<chatRequests, chatSent>>

ChatNext ==
    \/ \E text \in ChatTexts : ChatInputChange(text) /\ UNCHANGED exceptChat
    \/ HandleSend /\ UNCHANGED exceptChat
    \/ \E r \in chatRequests : ReplyArrives(r) /\ UNCHANGED exceptChat
    \/ \E r \in chatRequests, err \in ChatFailures : ReplyFails(r, err) /\ UNCHANGED exceptChat
    \/ \E p \in ChatProjects, m \in ChatMeetings : ChatPropsChange(p, m) /\ UNCHANGED exceptChat
    \/ ChatUnmount /\ UNCHANGED exceptChat
    \/ \E p \in ChatProjects, m \in ChatMeetings : ChatMount(p, m) /\ UNCHANGED exceptChat

ChatSpec == PartsIdle /\ [][ChatNext]_vars

\* The backend answers or axios gives up after its 30 second timeout:
\* every request in flight settles.
ChatFairSpec ==
    /\ ChatSpec
    /\ \A id \in 1..MaxSends :
           WF_vars(\E r \in chatRequests :
                       r.id = id /\ ReplyArrives(r) /\ UNCHANGED exceptChat)

\* C36: at most one chat request is in flight at any time, and a submit
\* event changes nothing when the input is blank, no project is selected
\* or the previous request has not settled.
C36_AtMostOneChatRequest ==
    /\ Cardinality(chatRequests) <= 1
    /\ (chatLast.op = "send" /\ chatLast.inFlight > 0) => ~chatLast.accepted
    /\ (chatLast.op = "send" /\ (Trim(chatLast.text) = <<>> \/ projectName = ""
                                   \/ chatLast.wasLoading)) => ~chatLast.accepted

\* C37: an accepted send appends the user message at once and sets
\* loading; when its request settles, by an answer or by any failure,
\* exactly one assistant message is appended and loading is false.
C37_SendAndSettleAppend ==
    [][ /\ (chatLast'.op = "send" /\ chatLast'.accepted) =>
               /\ Len(messages') = Len(messages) + 1
               /\ SubSeq(messages', 1, Len(messages)) = messages
               /\ messages'[Len(messages')].role = "user"
               /\ messages'[Len(messages')].text = input
               /\ chatLoading'
        /\ chatLast'.op \in {"reply", "fails"} =>
               /\ Len(messages') = Len(messages) + 1
               /\ SubSeq(messages', 1, Len(messages)) = messages
               /\ messages'[Len(messages')].role = "assistant"
               /\ messages'[Len(messages')].req = chatLast'.req
               /\ ~chatLoading'
      ]_vars

\* The liveness half of C37, under ChatFairSpec: a Chatbot that is loading
\* is eventually not loading.
ChatLoadingEnds == chatLoading ~> ~chatLoading

\* C38: the message list is the welcome message of the project and meeting
\* shown, followed only by the questions asked since they were selected
\* and the replies to those questions.
C38_OnlyMessagesOfThisConversation ==
    chatMounted =>
        /\ SubSeq(messages, 1, 1) = WelcomeMessages(projectName, meetingName)
        /\ \A i \in 2..Len(messages) : messages[i].req > chatSince

(***************************************************************************)
(* Part 5: the ConnectionStatus poll.                                      *)
(***************************************************************************)

\* how GET /health settles: response.data.status === 'ok', another
\* response, or a rejection (network error, error status, 30 s timeout)
HealthResults == {"ok", "notOk", "failed"}

\* setStatus(...) of checkConnection
StatusOf(result) == IF result = "ok" THEN "connected" ELSE "error"

\* setMessage(...) of checkConnection
MessageOf(result) ==
    CASE result = "ok" -> "Backend connected"
      [] result = "notOk" -> "Backend not ready"
      [] OTHER -> "Cannot connect to backend"

MaxChecks == 4

\* the interval fires: checkConnection() up to its await
PollTick ==
    /\ connMounted
    /\ checkCount < MaxChecks
    /\ checkCount' = checkCount + 1
    /\ checks' = checks \cup {checkCount + 1}
    /\ connLast' = [ConnOp("poll") EXCEPT !.id = checkCount + 1]
    /\ UNCHANGED <<connMounted, status, message, shownCheck, newestSettled>>

\* checkConnection after its await; the setters of an unmounted
\* ConnectionStatus change nothing
CheckSettles(id, result) ==
    /\ id \in checks
    /\ checks' = checks \ {id}
    /\ newestSettled' = IF id > newestSettled THEN id ELSE newestSettled
    /\ IF connMounted
       THEN /\ status' = StatusOf(result)
            /\ message' = MessageOf(result)
            /\ shownCheck' = id
       ELSE UNCHANGED <<status, message, shownCheck>>
    /\ connLast' = [ConnOp("settles") EXCEPT !.id = id, !.result = result]
    /\ UNCHANGED <<connMounted, checkCount>>

\* the effect's cleanup: clearInterval(interval)
ConnUnmount ==
    /\ connMounted
    /\ connMounted' = FALSE
    /\ connLast' = ConnOp("unmount")
    /\ UNCHANGED <<status, message, checks, checkCount, shownCheck, newestSettled>>

ConnNext ==
    \/ PollTick /\ UNCHANGED exceptConn
    \/ \E id \in checks, result \in HealthResults : CheckSettles(id, result) /\ UNCHANGED exceptConn
    \/ ConnUnmount /\ UNCHANGED exceptConn

ConnSpec == PartsIdle /\ [][ConnNext]_vars

\* C40: the status shown is the result of the latest-started health check
\* that has settled, never that of an earlier one; once a result is shown
\* the status is not 'checking'; no check is started after unmount.
C40_StatusIsOfNewestCheck ==
    /\ (connMounted /\ shownCheck # 0) => shownCheck = newestSettled
    /\ shownCheck # 0 => status # "checking"
    /\ connLast.op = "poll" => connMounted

====
